---------------------------- MODULE Spec2Model ----------------------------
(***************************************************************************)
(* A model of models/portfolio.py: the Portfolio class.                    *)
(*                                                                         *)
(*   Spec      construction of a Portfolio: the per-ticker price fetches   *)
(*             of _get_data, the cleaning of the joined price table,       *)
(*             calculate_returns, the statistics and the benchmark fetch.  *)
(*   SpecOpt   the three strategies and choose_best_return_portfolio on a  *)
(*             constructed Portfolio.                                      *)
(*   SpecStats get_summary_statistics on a constructed Portfolio.          *)
(*   SpecDrawdown  calculate_max_drawdowns on a daily return series.       *)
(*   SpecTreemap   create_weighted_sector_treemap.                         *)
(*                                                                         *)
(* Prices are positive integers, a missing observation is NaN.  Ratios     *)
(* (returns, means) are exact rationals <<num, den>> in lowest terms with  *)
(* den > 0; a float that is not a number is <<0, 0>>, +inf is <<1, 0>> and *)
(* -inf is <<-1, 0>>, as IEEE division by zero produces them.              *)
(***************************************************************************)
EXTENDS Integers, Sequences, FiniteSets

\* ------------------------------------------------------------------ bounds

\* The largest number of dates of the joined price table.
MaxDates == 6

\* The ticker lists a user can hold in user.data['available_stocks'].
RequestedLists == { <<>>, <<"A">>, <<"A", "B">> }

\* The largest number of rows of the return matrix of a constructed Portfolio.
MaxRows == 2

\* The longest daily return series handed to calculate_max_drawdowns.
MaxSeriesLen == 4

\* The universes of a constructed Portfolio.
Universes == { <<"A">>, <<"A", "B">> }

\* The prices of the table of a constructed Portfolio: the daily returns are
\* -50%, 0 and +100%.
PriceGrid == { 1, 2 }

\* The daily returns of a series handed to calculate_max_drawdowns; a simple
\* return of positive prices is above -100%.
SeriesGrid == { << 0 - 1, 2 >>, << 0 - 1, 3 >>, << 0, 1 >>, << 1, 2 >>, << 1, 1 >> }

\* The weights a solver iterate or a caller's dictionary can hold.
WeightGrid == { << 0, 1 >>, << 1, 2 >>, << 1, 1 >> }

\* The values of user.data['max_equity_investment'], in percent.
CapPercents == { 40, 100 }

\* The keys a caller's weight dictionary can hold.
WeightKeys == { "A", "B", "Z" }

\* The answers of the sector lookup for one ticker; "fail" is an exception.
SectorAnswers == { "fail", "Tech", "Unknown" }

\* ----------------------------------------------------------------- helpers

\* The marker of a missing observation (pandas NaN); prices are >= 1.
NaN == 0

Abs(x) == IF x < 0 THEN 0 - x ELSE x

RECURSIVE Gcd(_, _)
Gcd(a, b) == IF b = 0 THEN a ELSE Gcd(b, a % b)

Range(s) == { s[i] : i \in 1..Len(s) }

SetMax(S) == CHOOSE x \in S : \A y \in S : y <= x

\* A float as an exact rational in lowest terms; den = 0 for nan and +-inf.
Norm(n, d) ==
    IF d = 0 THEN << (IF n > 0 THEN 1 ELSE IF n < 0 THEN 0 - 1 ELSE 0), 0 >>
    ELSE LET g == Gcd(Abs(n), Abs(d))
             s == IF d < 0 THEN 0 - 1 ELSE 1
         IN  << (s * n) \div g, (s * d) \div g >>

FNaN == << 0, 0 >>
IsNaN(q) == q = FNaN
Rat(n) == << n, 1 >>

RAdd(p, q) ==
    IF IsNaN(p) \/ IsNaN(q) THEN FNaN
    ELSE IF p[2] = 0 /\ q[2] = 0 THEN (IF p = q THEN p ELSE FNaN)
    ELSE IF p[2] = 0 THEN p
    ELSE IF q[2] = 0 THEN q
    ELSE Norm(p[1] * q[2] + q[1] * p[2], p[2] * q[2])

RNeg(p) == << 0 - p[1], p[2] >>
RSub(p, q) == RAdd(p, RNeg(q))

RMul(p, q) ==
    IF IsNaN(p) \/ IsNaN(q) THEN FNaN
    ELSE IF p[2] = 0 \/ q[2] = 0
         THEN Norm(p[1] * q[1], 0)
         ELSE Norm(p[1] * q[1], p[2] * q[2])

\* Float division: x/0 is +-inf, 0/0 is nan; numpy raises nothing.
RDiv(p, q) ==
    IF IsNaN(p) \/ IsNaN(q) THEN FNaN
    ELSE IF q[2] = 0 THEN (IF p[2] = 0 THEN FNaN ELSE Rat(0))
    ELSE IF p[2] = 0 THEN (IF q[1] = 0 THEN p
                           ELSE IF q[1] > 0 THEN p ELSE RNeg(p))
    ELSE IF q[1] = 0 THEN Norm(p[1], 0)
    ELSE Norm(p[1] * q[2], p[2] * q[1])

\* p < q on numbers (false when either is nan, as for floats).
RLess(p, q) ==
    /\ ~IsNaN(p) /\ ~IsNaN(q)
    /\ IF p[2] = 0 /\ q[2] = 0 THEN p[1] < q[1]
       ELSE IF p[2] = 0 THEN p[1] < 0
       ELSE IF q[2] = 0 THEN q[1] > 0
       ELSE p[1] * q[2] < q[1] * p[2]

RLeq(p, q) == ~IsNaN(p) /\ ~IsNaN(q) /\ ~RLess(q, p)

RECURSIVE RSum(_)
RSum(s) == IF s = <<>> THEN Rat(0) ELSE RAdd(s[1], RSum(Tail(s)))

RECURSIVE RProd(_)
RProd(s) == IF s = <<>> THEN Rat(1) ELSE RMul(s[1], RProd(Tail(s)))

\* ------------------------------------------------------------------- state

VARIABLES
    pc,            \* "fetch": in the loop of _get_data; "constructed"; "failed"
    error,         \* the exception that ended __init__, or "none"
    requested,     \* user.data['available_stocks']
    numDates,      \* the number of dates of the provider's calendar
    idx,           \* the position of the fetch loop in requested
    attempted,     \* the tickers yf.download was called for
    fetchFailed,   \* the tickers whose download raised
    data_list,     \* the fetched series, in fetch order
    data,          \* self.data: the cleaned table, a sequence of columns
    tickers,       \* self.tickers
    returns,       \* self.returns: a sequence of rows
    mean_returns,  \* self.mean_returns: ticker -> float
    cov_defined,   \* whether self.cov_matrix holds numbers (not nan)
    max_equity_investment,  \* user.data['max_equity_investment']
    lastCall,      \* the method called last on the constructed Portfolio
    args,          \* its arguments
    raised,        \* the exception it raised, or "none"
    result,        \* what it returned
    solverRuns     \* the reports of the solver runs it made

cvars == << requested, numDates, idx, attempted, fetchFailed, data_list >>
svars == << data, tickers, returns, mean_returns, cov_defined >>
mvars == << max_equity_investment, lastCall, args, raised, result, solverRuns >>

vars == << pc, error, cvars, svars, mvars >>

\* ------------------------------------------------------- _get_data cleaning

\* The prices a provider quotes: on date d the price is d, so that every
\* date's price differs and a filled cell shows where its value came from.
Price(d) == d

\* The series a successful download can return over the calendar: a price on
\* the dates in present, no observation on the others.
SeriesOn(present) ==
    [ d \in 1..numDates |-> IF d \in present THEN Price(d) ELSE NaN ]

\* pd.concat(data_list, axis=1).sort_index(): one column per fetched series.
\* The series are held over the common calendar 1..numDates in date order,
\* with NaN where a series has no observation, which is what the outer join
\* on the dates and the sort produce.
Concat(dl) == dl

\* data.dropna(axis=1, how='all'): a column is kept when it has a value.
DropAllNaN(tbl) ==
    SelectSeq(tbl, LAMBDA c : \E d \in 1..Len(c.vals) : c.vals[d] # NaN)

\* Series.ffill(): each cell takes the last value at or before it.
Ffill(s) ==
    [ d \in 1..Len(s) |->
        LET seen == { k \in 1..d : s[k] # NaN }
        IN  IF seen = {} THEN NaN ELSE s[SetMax(seen)] ]

\* data.ffill(inplace=True)
FfillTable(tbl) ==
    [ i \in 1..Len(tbl) |-> [ name |-> tbl[i].name, vals |-> Ffill(tbl[i].vals) ] ]

\* (~col.isna()).cumsum() at position d
NotNaCumsum(s, d) == Cardinality({ k \in 1..d : s[k] # NaN })

\* col.isna().groupby((~col.isna()).cumsum()).cumsum() at position d
NanStreakAt(s, d) ==
    Cardinality({ k \in 1..d : s[k] = NaN /\ NotNaCumsum(s, k) = NotNaCumsum(s, d) })

\* (...).max(); a series without rows has no maximum and is never >= 4
MaxNanStreak(s) ==
    IF Len(s) = 0 THEN 0 ELSE SetMax({ NanStreakAt(s, d) : d \in 1..Len(s) })

\* The hard cutoff of the loop over the columns.
StreakCutoff == 4

\* for column in data.columns: drop the column or forward-fill it.
DropLongStreaks(tbl) ==
    LET kept == SelectSeq(tbl, LAMBDA c : ~(MaxNanStreak(c.vals) >= StreakCutoff))
    IN  [ i \in 1..Len(kept) |->
            [ name |-> kept[i].name, vals |-> Ffill(kept[i].vals) ] ]

Rows(tbl) == numDates

\* pd.isna(data.iloc[0]).any()
FirstRowHasNaN(tbl) == \E i \in 1..Len(tbl) : tbl[i].vals[1] = NaN

\* if pd.isna(data.iloc[0]).any() and len(data) > 1: data.iloc[0] = data.iloc[1]
PatchFirstRow(tbl) ==
    IF FirstRowHasNaN(tbl) /\ Rows(tbl) > 1
    THEN [ i \in 1..Len(tbl) |->
            [ name |-> tbl[i].name,
              vals |-> [ tbl[i].vals EXCEPT ![1] = tbl[i].vals[2] ] ] ]
    ELSE tbl

\* The table before the first-row patch.
Filled(dl) == DropLongStreaks(FfillTable(DropAllNaN(Concat(dl))))

\* The table _get_data returns.
Cleaned(dl) == PatchFirstRow(Filled(dl))

Columns(tbl) == [ i \in 1..Len(tbl) |-> tbl[i].name ]

\* ------------------------------------------------------- calculate_returns

\* One cell of data.pct_change(): nan in the first row and next to a nan.
PctCell(s, d) ==
    IF d = 1 \/ s[d] = NaN \/ s[d - 1] = NaN THEN FNaN
    ELSE Norm(s[d] - s[d - 1], s[d - 1])

\* One row of data.pct_change(): ticker -> float.
PctRow(tbl, d) ==
    [ t \in Range(Columns(tbl)) |->
        LET c == CHOOSE i \in 1..Len(tbl) : tbl[i].name = t
        IN  PctCell(tbl[c].vals, d) ]

RECURSIVE KeepRows(_, _, _)
KeepRows(tbl, d, n) ==
    IF d > n THEN <<>>
    ELSE LET row == PctRow(tbl, d)
             rest == KeepRows(tbl, d + 1, n)
         IN  IF \E t \in DOMAIN row : IsNaN(row[t])
             THEN rest
             ELSE << [ date |-> d, vals |-> row ] >> \o rest

\* self.data.pct_change().dropna(): the rows without a nan.
CalculateReturns(tbl) == KeepRows(tbl, 1, Rows(tbl))

\* self.returns.mean(): nan for a column without rows.
Mean(rets, t) ==
    RDiv(RSum([ k \in 1..Len(rets) |-> rets[k].vals[t] ]), Rat(Len(rets)))

\* self.returns.cov() holds numbers when there are two rows or more.
CovDefined(rets) == Len(rets) >= 2

\* ---------------------------------------------------------------- __init__

Init ==
    /\ pc = "fetch"
    /\ error = "none"
    /\ requested \in RequestedLists
    /\ numDates \in 0..MaxDates
    /\ idx = 1
    /\ attempted = {}
    /\ fetchFailed = {}
    /\ data_list = <<>>
    /\ data = <<>>
    /\ tickers = requested
    /\ returns = <<>>
    /\ mean_returns = <<>>
    /\ cov_defined = FALSE
    /\ max_equity_investment \in CapPercents
    /\ lastCall = "none"
    /\ args = <<>>
    /\ raised = "none"
    /\ result = <<>>
    /\ solverRuns = <<>>

InLoop == pc = "fetch" /\ idx <= Len(requested)

\* yf.download(ticker, ...)['Adj Close'] returns a series.
FetchOk ==
    /\ InLoop
    /\ \E present \in SUBSET (1..numDates) :
          data_list' = Append(data_list,
                              [ name |-> requested[idx], vals |-> SeriesOn(present) ])
    /\ attempted' = attempted \cup { requested[idx] }
    /\ idx' = idx + 1
    /\ UNCHANGED << pc, error, requested, numDates, fetchFailed, svars, mvars >>

\* The download raises KeyError: caught, printed, the loop goes on.
FetchKeyError ==
    /\ InLoop
    /\ attempted' = attempted \cup { requested[idx] }
    /\ fetchFailed' = fetchFailed \cup { requested[idx] }
    /\ idx' = idx + 1
    /\ UNCHANGED << pc, error, requested, numDates, data_list, svars, mvars >>

\* The download raises anything else: only KeyError is caught, so the
\* exception leaves _get_data and __init__.
FetchOtherError ==
    /\ InLoop
    /\ attempted' = attempted \cup { requested[idx] }
    /\ fetchFailed' = fetchFailed \cup { requested[idx] }
    /\ pc' = "failed"
    /\ error' = "FetchError"
    /\ UNCHANGED << requested, numDates, idx, data_list, svars, mvars >>

\* pd.concat of an empty list raises ValueError.
ConcatFails ==
    /\ pc = "fetch" /\ idx > Len(requested)
    /\ data_list = <<>>
    /\ pc' = "failed"
    /\ error' = "ValueError"
    /\ UNCHANGED << cvars, svars, mvars >>

\* data.iloc[0] of a table without rows raises IndexError.
FirstRowFails ==
    /\ pc = "fetch" /\ idx > Len(requested)
    /\ data_list # <<>>
    /\ Rows(Filled(data_list)) = 0
    /\ pc' = "failed"
    /\ error' = "IndexError"
    /\ UNCHANGED << cvars, svars, mvars >>

\* The rest of __init__ after the loop: the cleaning, the returns, the
\* statistics and the benchmark download, which succeeds or raises.
Construct(benchmarkOk) ==
    /\ pc = "fetch" /\ idx > Len(requested)
    /\ data_list # <<>>
    /\ Rows(Filled(data_list)) > 0
    /\ LET tbl == Cleaned(data_list)
           rets == CalculateReturns(tbl)
       IN  /\ data' = tbl
           /\ tickers' = Columns(tbl)
           /\ returns' = rets
           /\ mean_returns' = [ t \in Range(Columns(tbl)) |-> Mean(rets, t) ]
           /\ cov_defined' = CovDefined(rets)
    /\ pc' = IF benchmarkOk THEN "constructed" ELSE "failed"
    /\ error' = IF benchmarkOk THEN "none" ELSE "BenchmarkError"
    /\ UNCHANGED << cvars, mvars >>

ConstructOk == Construct(TRUE)
BenchmarkFails == Construct(FALSE)

Next ==
    \/ FetchOk
    \/ FetchKeyError
    \/ FetchOtherError
    \/ ConcatFails
    \/ FirstRowFails
    \/ ConstructOk
    \/ BenchmarkFails

Spec == Init /\ [][Next]_vars


\* ------------------------------------------------ a constructed Portfolio

\* The cleaned price tables of a constructed Portfolio with universe tk and
\* n dates: every ticker has a price on every date.
PriceTables(tk, n) ==
    { [ i \in 1..Len(tk) |-> [ name |-> tk[i], vals |-> m[tk[i]] ] ]
      : m \in [ Range(tk) -> [ 1..n -> PriceGrid ] ] }

\* The state __init__ leaves for a universe and a number of dates: every
\* download succeeded without a gap, the statistics are those of the table.
Constructed(universes, dates) ==
    /\ pc = "constructed"
    /\ error = "none"
    /\ tickers \in universes
    /\ requested = tickers
    /\ numDates \in dates
    /\ idx = Len(tickers) + 1
    /\ attempted = Range(tickers)
    /\ fetchFailed = {}
    /\ data \in PriceTables(tickers, numDates)
    /\ data_list = data
    /\ returns = CalculateReturns(data)
    /\ mean_returns = [ t \in Range(tickers) |-> Mean(returns, t) ]
    /\ cov_defined = CovDefined(returns)
    /\ max_equity_investment \in CapPercents
    /\ lastCall = "none"
    /\ args = <<>>
    /\ raised = "none"
    /\ result = <<>>
    /\ solverRuns = <<>>

\* The Portfolio is constructed and no call on it is in progress.
IsConstructed == pc = "constructed" /\ lastCall = "none"

\* ------------------------------------------------------------- strategies

NumAssets == Len(tickers)

\* self.bounds: (0, max_equity_investment / 100) for every ticker
UpperBound == Norm(max_equity_investment, 100)

\* min_weight of __init__, 0.0 by default
MinWeight == Rat(0)

SumOf(w) == RSum([ i \in 1..Len(tickers) |-> w[tickers[i]] ])

\* The points that satisfy self.bounds and self.constraints.
Feasible(w) ==
    /\ SumOf(w) = Rat(1)
    /\ RLeq(RMul(Rat(NumAssets), MinWeight), SumOf(w))
    /\ \A t \in DOMAIN w : RLeq(Rat(0), w[t]) /\ RLeq(w[t], UpperBound)

\* np.ones(num_assets) / num_assets
InitialWeights == [ t \in Range(tickers) |-> Norm(1, NumAssets) ]

\* What scipy's minimize(..., method='SLSQP') can report: success with a
\* feasible point, or failure with the iterate it stopped at, which may be
\* the initial guess.
SolverReports ==
    LET points == [ Range(tickers) -> WeightGrid ] \cup { InitialWeights }
    IN  { [ success |-> TRUE, x |-> w ] : w \in { v \in points : Feasible(v) } }
        \cup { [ success |-> FALSE, x |-> w ] : w \in points }

\* dict(zip(self.tickers, result.x)): result.success is not read.
SolverWeights(report) == report.x

\* A variant of the equal weights: each weight clipped to the cap.
EqualWeightsCapped ==
    [ t \in Range(tickers) |->
        IF RLess(UpperBound, Norm(1, NumAssets)) THEN UpperBound
        ELSE Norm(1, NumAssets) ]

\* equal_weight_portfolio
EqualWeights == [ t \in Range(tickers) |-> Norm(1, NumAssets) ]

\* self.returns.dot(pd.Series(weights))
WeightedReturns(rets, w) ==
    [ k \in 1..Len(rets) |->
        RSum([ i \in 1..Len(tickers) |-> RMul(w[tickers[i]], rets[k].vals[tickers[i]]) ]) ]

\* (1 + weighted_returns).prod() - 1
TotalReturn(rets, w) ==
    LET wr == WeightedReturns(rets, w)
    IN  RSub(RProd([ k \in 1..Len(wr) |-> RAdd(Rat(1), wr[k]) ]), Rat(1))

\* The iteration order of the portfolios dictionary.
StrategyOrder == << "min_variance", "equal_weight", "max_sharpe" >>

\* A variant of the comparison: >= in place of >, so that a later strategy
\* with the same total return replaces an earlier one.
BetterOrEqualToBest(total, best) == ~RLess(total, best)

\* if total_return > best_return
BetterThanBest(total, best) == RLess(best, total)

\* The loop of choose_best_return_portfolio without rebalancing, from
\* position i with the best so far: the name it ends with ("None" when no
\* total return is above -inf).
RECURSIVE BestFrom(_, _, _, _)
BestFrom(portfolios, i, bestName, bestReturn) ==
    IF i > Len(StrategyOrder) THEN bestName
    ELSE LET name == StrategyOrder[i]
             total == TotalReturn(returns, portfolios[name])
         IN  IF BetterThanBest(total, bestReturn)
             THEN BestFrom(portfolios, i + 1, name, total)
             ELSE BestFrom(portfolios, i + 1, bestName, bestReturn)

BestName(portfolios) == BestFrom(portfolios, 1, "None", << 0 - 1, 0 >>)

Returned(call, a, value, runs) ==
    /\ lastCall' = call
    /\ args' = a
    /\ raised' = "none"
    /\ result' = value
    /\ solverRuns' = runs

Raised(call, a, exc, runs) ==
    /\ lastCall' = call
    /\ args' = a
    /\ raised' = exc
    /\ result' = <<>>
    /\ solverRuns' = runs

Frame == UNCHANGED << pc, error, cvars, svars, max_equity_investment >>

MinVariancePortfolio ==
    /\ IsConstructed
    /\ \E report \in SolverReports :
          Returned("min_variance_portfolio", <<>>, SolverWeights(report),
                   << [ strategy |-> "min_variance", success |-> report.success,
                        x |-> report.x ] >>)
    /\ Frame

EqualWeightPortfolio ==
    /\ IsConstructed
    /\ Returned("equal_weight_portfolio", <<>>, EqualWeights, <<>>)
    /\ Frame

MaxSharpeRatioPortfolio ==
    /\ IsConstructed
    /\ \E report \in SolverReports :
          Returned("max_sharpe_ratio_portfolio", <<>>, SolverWeights(report),
                   << [ strategy |-> "max_sharpe", success |-> report.success,
                        x |-> report.x ] >>)
    /\ Frame

\* choose_best_return_portfolio(yearly_rebalance): the three portfolios are
\* built first; with 'yes' the loop calls self.yearly_rebalance, which the
\* class does not define, and the AttributeError leaves the method.
ChooseBestReturnPortfolio(yearly_rebalance) ==
    /\ IsConstructed
    /\ \E mv \in SolverReports, ms \in SolverReports :
          LET portfolios == [ min_variance |-> SolverWeights(mv),
                              equal_weight |-> EqualWeights,
                              max_sharpe |-> SolverWeights(ms) ]
              runs == << [ strategy |-> "min_variance", success |-> mv.success,
                           x |-> mv.x ],
                         [ strategy |-> "max_sharpe", success |-> ms.success,
                           x |-> ms.x ] >>
              a == [ yearly_rebalance |-> yearly_rebalance, portfolios |-> portfolios ]
          IN  IF yearly_rebalance = "yes"
              THEN Raised("choose_best_return_portfolio", a, "AttributeError", runs)
              ELSE Returned("choose_best_return_portfolio", a,
                            LET best == BestName(portfolios)
                            IN  [ name |-> best,
                                  weights |-> IF best = "None" THEN <<>>
                                              ELSE portfolios[best] ],
                            runs)
    /\ Frame

ChooseBestNoRebalance == ChooseBestReturnPortfolio("no")
ChooseBestYearlyRebalance == ChooseBestReturnPortfolio("yes")

\* The caller takes the result; the Portfolio is ready for the next call.
TakeResult ==
    /\ pc = "constructed"
    /\ lastCall # "none"
    /\ lastCall' = "none"
    /\ args' = <<>>
    /\ raised' = "none"
    /\ result' = <<>>
    /\ solverRuns' = <<>>
    /\ Frame

InitOpt == Constructed(Universes, 1..(MaxRows + 1))

NextOpt ==
    \/ EqualWeightPortfolio
    \/ MinVariancePortfolio
    \/ MaxSharpeRatioPortfolio
    \/ ChooseBestNoRebalance
    \/ ChooseBestYearlyRebalance
    \/ TakeResult

SpecOpt == InitOpt /\ [][NextOpt]_vars

\* ------------------------------------------------- calculate_max_drawdowns

RMaxOf(S) == CHOOSE x \in S : \A y \in S : ~RLess(x, y)
RMinOf(S) == CHOOSE x \in S : \A y \in S : ~RLess(y, x)

\* (1 + returns).cumprod()
Cumprod(series) ==
    [ k \in 1..Len(series) |->
        RProd([ j \in 1..k |-> RAdd(Rat(1), series[j]) ]) ]

\* A variant of the running peak: the running minimum.
Cummin(cumulative) ==
    [ k \in 1..Len(cumulative) |-> RMinOf({ cumulative[j] : j \in 1..k }) ]

\* cumulative.cummax()
Cummax(cumulative) ==
    [ k \in 1..Len(cumulative) |-> RMaxOf({ cumulative[j] : j \in 1..k }) ]

\* (cumulative - peak) / peak
Drawdown(cumulative, peak) ==
    [ k \in 1..Len(cumulative) |->
        RDiv(RSub(cumulative[k], peak[k]), peak[k]) ]

\* drawdown.min(): the smallest number, nan when there is none
SeriesMin(s) ==
    LET numbers == { s[k] : k \in { j \in 1..Len(s) : ~IsNaN(s[j]) } }
    IN  IF numbers = {} THEN FNaN ELSE RMinOf(numbers)

CalculateMaxDrawdownsOf(series) ==
    LET cumulative == Cumprod(series)
        peak == Cummax(cumulative)
    IN  SeriesMin(Drawdown(cumulative, peak))

\* The daily return series a caller can hand over.
ReturnSeries == UNION { [ 1..n -> SeriesGrid ] : n \in 0..MaxSeriesLen }

CalculateMaxDrawdowns ==
    /\ IsConstructed
    /\ \E series \in ReturnSeries :
          Returned("calculate_max_drawdowns", [ returns |-> series ],
                   CalculateMaxDrawdownsOf(series), <<>>)
    /\ Frame

InitDrawdown == Constructed({ << "A" >> }, { 2 })

NextDrawdown ==
    \/ CalculateMaxDrawdowns
    \/ TakeResult

SpecDrawdown == InitDrawdown /\ [][NextDrawdown]_vars

\* ------------------------------------------------- get_summary_statistics

\* The trading days of a year, the annualisation factor.
TradingDays == 252

\* risk_free_rate=0.01
RiskFreeRate == Norm(1, 100)

SeriesMean(s) == RDiv(RSum(s), Rat(Len(s)))

\* Series.std() squared: the sample variance, nan below two observations.
SeriesVar(s) ==
    LET m == SeriesMean(s)
        sq == [ k \in 1..Len(s) |-> RMul(RSub(s[k], m), RSub(s[k], m)) ]
    IN  RDiv(RSum(sq), Rat(Len(s) - 1))

\* (annualized_return - risk_free_rate) / annualized_volatility on floats:
\* no exception; the quotient is nan, +-inf or a number, kept as its
\* numerator over the square root of volatility_sq.
SharpeRatio(excess, volatility_sq) ==
    [ kind |-> IF IsNaN(excess) \/ IsNaN(volatility_sq) THEN "nan"
               ELSE IF volatility_sq = Rat(0)
                    THEN (IF excess[1] > 0 THEN "inf"
                          ELSE IF excess[1] < 0 THEN "-inf" ELSE "nan")
                    ELSE "number",
      excess |-> excess,
      volatility_sq |-> volatility_sq ]

SummaryStatistics(portfolio_weights) ==
    LET weighted_returns == WeightedReturns(returns, portfolio_weights)
        cumulative_return ==
            RSub(RProd([ k \in 1..Len(weighted_returns) |->
                            RAdd(Rat(1), weighted_returns[k]) ]), Rat(1))
        annualized_return == RMul(SeriesMean(weighted_returns), Rat(TradingDays))
        annualized_volatility_sq ==
            RMul(SeriesVar(weighted_returns), Rat(TradingDays))
    IN  [ cumulative_return |-> cumulative_return,
          annualized_return |-> annualized_return,
          annualized_volatility_sq |-> annualized_volatility_sq,
          sharpe_ratio |-> SharpeRatio(RSub(annualized_return, RiskFreeRate),
                                       annualized_volatility_sq),
          max_drawdown |-> CalculateMaxDrawdownsOf(weighted_returns) ]

GetSummaryStatistics ==
    /\ IsConstructed
    /\ \E w \in [ Range(tickers) -> WeightGrid ] :
          Returned("get_summary_statistics", [ portfolio_weights |-> w ],
                   SummaryStatistics(w), <<>>)
    /\ Frame

InitStats == Constructed(Universes, 1..(MaxRows + 1))

NextStats ==
    \/ GetSummaryStatistics
    \/ TakeResult

SpecStats == InitStats /\ [][NextStats]_vars

\* ------------------------------------------ create_weighted_sector_treemap

\* The weight dictionaries a caller can hand over.
WeightDicts == UNION { [ keys -> WeightGrid ] : keys \in SUBSET WeightKeys }

\* A variant of the check: the difference taken the other way round.
UnknownKeys(weights) == (DOMAIN weights) \ Range(tickers)

\* set(self.tickers) - set(weights.keys())
MissingTickers(weights) == Range(tickers) \ (DOMAIN weights)

\* weights.get(ticker, 0)
WeightsGet(weights, t) == IF t \in DOMAIN weights THEN weights[t] ELSE Rat(0)

\* The rows of sector_data: one per ticker whose sector lookup answered.
RECURSIVE SectorData(_, _, _)
SectorData(weights, answers, i) ==
    IF i > Len(tickers) THEN <<>>
    ELSE LET t == tickers[i]
             rest == SectorData(weights, answers, i + 1)
         IN  IF answers[t] = "fail" THEN rest
             ELSE << [ Ticker |-> t, Sector |-> answers[t],
                       Weight |-> WeightsGet(weights, t) ] >> \o rest

\* df.groupby('Sector')['Weight'].sum()
SectorWeights(rows) ==
    [ sec \in { rows[k].Sector : k \in 1..Len(rows) } |->
        RSum([ j \in 1..Len(SelectSeq(rows, LAMBDA r : r.Sector = sec)) |->
                 SelectSeq(rows, LAMBDA r : r.Sector = sec)[j].Weight ]) ]

CreateWeightedSectorTreemap ==
    /\ IsConstructed
    /\ \E weights \in WeightDicts, answers \in [ Range(tickers) -> SectorAnswers ] :
          LET a == [ weights |-> weights, answers |-> answers ]
              rows == SectorData(weights, answers, 1)
          IN  IF MissingTickers(weights) # {}
              THEN Raised("create_weighted_sector_treemap", a, "ValueError", <<>>)
              ELSE IF rows = <<>>
              THEN Raised("create_weighted_sector_treemap", a, "KeyError", <<>>)
              ELSE Returned("create_weighted_sector_treemap", a,
                            [ sector_data |-> rows,
                              sector_weights |-> SectorWeights(rows) ], <<>>)
    /\ Frame

InitTreemap == Constructed(Universes, { 2 })

NextTreemap ==
    \/ CreateWeightedSectorTreemap
    \/ TakeResult

SpecTreemap == InitTreemap /\ [][NextTreemap]_vars

\* ------------------------------------------------------------ properties

\* _get_data returned a table (the benchmark download comes after it).
GetDataReturned ==
    /\ pc \in { "constructed", "failed" }
    /\ error \in { "none", "BenchmarkError" }

\* The lengths of the maximal runs of missing observations of a series.
NanRunLengths(s) ==
    { b - a + 1 : <<a, b>> \in
        { r \in (1..Len(s)) \X (1..Len(s)) :
            /\ r[1] <= r[2]
            /\ \A d \in r[1]..r[2] : s[d] = NaN
            /\ (r[1] = 1 \/ s[r[1] - 1] # NaN)
            /\ (r[2] = Len(s) \/ s[r[2] + 1] # NaN) } }

ColumnOf(tbl, name) == tbl[CHOOSE i \in 1..Len(tbl) : tbl[i].name = name].vals

\* The last price of a raw series seen before date d.
LastSeenBefore(raw, d) == raw[SetMax({ k \in 1..d : raw[k] # NaN })]

\* C1: in the table _get_data returns, a ticker whose fetched series has a
\* run of exactly 4 consecutive missing observations is absent from
\* self.tickers, and a ticker whose longest run is exactly 3 is retained with
\* the gap filled by the last price seen before it.  Stated for the series
\* that start with a price, where every gap has a price before it.
C1_CleaningPolicy ==
    GetDataReturned =>
        \A i \in 1..Len(data_list) :
            LET raw == data_list[i].vals
                name == data_list[i].name
                runs == NanRunLengths(raw)
            IN  (Len(raw) >= 1 /\ raw[1] # NaN) =>
                  /\ StreakCutoff \in runs => name \notin Range(tickers)
                  /\ (runs # {} /\ SetMax(runs) = StreakCutoff - 1) =>
                        /\ name \in Range(tickers)
                        /\ \A d \in 1..Len(raw) :
                              raw[d] = NaN =>
                                ColumnOf(data, name)[d] = LastSeenBefore(raw, d)

\* C9: when some download fails and some download succeeds, _get_data does
\* not abort on the failure: every requested ticker's download is attempted,
\* and in the table it returns no failing ticker is in the universe while
\* every fetched ticker that passes the cleaning is.
C9_FetchFailureTolerated ==
    ( /\ pc # "fetch"
      /\ fetchFailed # {}
      /\ \E i \in 1..Len(data_list) :
            \E d \in 1..numDates : data_list[i].vals[d] # NaN ) =>
        /\ error # "FetchError"
        /\ attempted = Range(requested)
        /\ GetDataReturned =>
              /\ fetchFailed \cap Range(tickers) = {}
              /\ Range(Columns(Filled(data_list))) \subseteq Range(tickers)

\* C10: construction never completes on a cleaned price matrix of fewer than
\* 2 rows (it leaves an empty return matrix and nan statistics): it fails.
\* Stated for the matrices that keep a ticker.
C10_InsufficientData ==
    ~(pc = "constructed" /\ Len(tickers) >= 1 /\ Rows(data) < 2)

OptimizerCalls ==
    { "equal_weight_portfolio", "min_variance_portfolio",
      "max_sharpe_ratio_portfolio" }

\* C2: every weight vector a strategy returns for a universe of N >= 1
\* tickers sums to 1 and has each weight in [0, max_equity_investment/100].
\* Stated for the Portfolios whose return matrix has a row.
C2_WeightVectorInvariant ==
    ( /\ lastCall \in OptimizerCalls
      /\ raised = "none"
      /\ NumAssets >= 1
      /\ Len(returns) >= 1 ) =>
        /\ SumOf(result) = Rat(1)
        /\ \A t \in Range(tickers) :
              RLeq(Rat(0), result[t]) /\ RLeq(result[t], UpperBound)

\* C3: a call of min_variance_portfolio or max_sharpe_ratio_portfolio whose
\* solver run reports no convergence ends in a failure, it returns no
\* weight dictionary.  Stated for the Portfolios whose return matrix has a
\* row.
C3_DoesNotConverge ==
    ( /\ lastCall \in { "min_variance_portfolio", "max_sharpe_ratio_portfolio" }
      /\ Len(returns) >= 1
      /\ \E k \in 1..Len(solverRuns) : ~solverRuns[k].success ) =>
        raised # "none"

\* The weighted daily return series has zero volatility.
ZeroVolatility(rets, w) ==
    LET wr == WeightedReturns(rets, w)
    IN  Len(wr) >= 2 /\ \A k \in 1..Len(wr) : wr[k] = wr[1]

\* C4: get_summary_statistics on weights (summing to 1) whose weighted daily
\* return series has zero volatility signals a failure, it returns no
\* summary record.
C4_DivisionByZero ==
    ( /\ lastCall = "get_summary_statistics"
      /\ SumOf(args.portfolio_weights) = Rat(1)
      /\ ZeroVolatility(returns, args.portfolio_weights) ) =>
        raised # "none"

\* C5: create_weighted_sector_treemap on a weight dictionary that lacks a
\* ticker of the universe raises and returns no figure; in a figure it does
\* return, every row carries the weight the dictionary holds for its ticker.
C5_MissingWeight ==
    lastCall = "create_weighted_sector_treemap" =>
        /\ (Range(tickers) \ (DOMAIN args.weights) # {}) => raised = "ValueError"
        /\ raised = "none" =>
              \A k \in 1..Len(result.sector_data) :
                  LET row == result.sector_data[k]
                  IN  /\ row.Ticker \in DOMAIN args.weights
                      /\ row.Weight = args.weights[row.Ticker]

\* A universe ticker is missing from the dictionary and the call raised.
C5_Witness ==
    /\ lastCall = "create_weighted_sector_treemap"
    /\ tickers = << "A", "B" >>
    /\ DOMAIN args.weights = { "A" }
    /\ \A t \in Range(tickers) : args.answers[t] # "fail"
    /\ raised = "ValueError"

\* The cumulative value series of a daily return series never decreases.
NeverDecreases(series) ==
    \A k \in 1..(Len(series) - 1) :
        RLeq(RProd([ j \in 1..k |-> RAdd(Rat(1), series[j]) ]),
             RProd([ j \in 1..(k + 1) |-> RAdd(Rat(1), series[j]) ]))

OrderIndex(name) == CHOOSE i \in 1..Len(StrategyOrder) : StrategyOrder[i] = name

\* C7: with yearly_rebalance='no', choose_best_return_portfolio returns the
\* weights of a strategy whose compounded total return over the return
\* matrix is the highest of the three, and of the strategies that reach the
\* highest it is the first in the order min_variance, equal_weight,
\* max_sharpe.
C7_BestReturnNoRebalance ==
    ( /\ lastCall = "choose_best_return_portfolio"
      /\ args.yearly_rebalance = "no" ) =>
        /\ raised = "none"
        /\ result.name \in Range(StrategyOrder)
        /\ result.weights = args.portfolios[result.name]
        /\ \A i \in 1..Len(StrategyOrder) :
              LET total == TotalReturn(returns, args.portfolios[StrategyOrder[i]])
                  best == TotalReturn(returns, args.portfolios[result.name])
              IN  /\ RLeq(total, best)
                  /\ i < OrderIndex(result.name) => RLess(total, best)

\* min_variance and equal_weight tie for the highest total return with
\* different weights, max_sharpe is below, and min_variance is returned.
C7_Witness ==
    /\ lastCall = "choose_best_return_portfolio"
    /\ args.yearly_rebalance = "no"
    /\ Len(returns) >= 1
    /\ args.portfolios["min_variance"] # args.portfolios["equal_weight"]
    /\ TotalReturn(returns, args.portfolios["min_variance"])
         = TotalReturn(returns, args.portfolios["equal_weight"])
    /\ RLess(TotalReturn(returns, args.portfolios["max_sharpe"]),
             TotalReturn(returns, args.portfolios["equal_weight"]))
    /\ result.name = "min_variance"

\* C8: with yearly_rebalance='yes', choose_best_return_portfolio completes
\* and returns the weights of one of the three strategies.  Stated for the
\* Portfolios whose return matrix has a row.
C8_YearlyRebalance ==
    ( /\ lastCall = "choose_best_return_portfolio"
      /\ Len(returns) >= 1
      /\ args.yearly_rebalance = "yes" ) =>
        /\ raised = "none"
        /\ \E i \in 1..Len(StrategyOrder) :
              result.weights = args.portfolios[StrategyOrder[i]]

\* C11: for a universe of N >= 1 tickers, every call of
\* equal_weight_portfolio returns (it never raises) a dictionary with exactly
\* one entry per universe ticker, each 1/N, whatever the prices, the
\* statistics and the cap are; the dictionary is determined by the universe
\* alone, which no call changes, so a repeated call returns the same one.
C11_EqualWeight ==
    (lastCall = "equal_weight_portfolio" /\ Len(tickers) >= 1) =>
        /\ raised = "none"
        /\ DOMAIN result = Range(tickers)
        /\ \A t \in Range(tickers) : result[t] = << 1, Len(tickers) >>

\* Two tickers under a cap of 40%, below 1/N, with a return row: the call
\* returned 1/2 for each.
C11_Witness ==
    /\ lastCall = "equal_weight_portfolio"
    /\ tickers = << "A", "B" >>
    /\ max_equity_investment = 40
    /\ Len(returns) >= 1
    /\ result = [ t \in { "A", "B" } |-> << 1, 2 >> ]

\* C12: in the table _get_data returns for a calendar of at least two
\* dates, every retained ticker has a price on every date, so that the
\* return matrix has exactly one row fewer than the price matrix.
C12_NoMissingCellLeft ==
    (GetDataReturned /\ numDates >= 2 /\ Len(tickers) >= 1) =>
        /\ \A i \in 1..Len(data) :
              \A d \in 1..numDates : data[i].vals[d] # NaN
        /\ Len(returns) = Rows(data) - 1

\* C13: the first-row patch changes only the cells of the first row that are
\* still missing after the forward fill, each to its ticker's second-row
\* value: a first-row price that is present stays, and so does every other
\* row.  The table before the patch is Filled(data_list), the table after
\* it is self.data.
C13_FirstRowPatchFrame ==
    GetDataReturned =>
        LET before == Filled(data_list)
        IN  \A i \in 1..Len(before) :
              /\ data[i].name = before[i].name
              /\ \A d \in 2..numDates : data[i].vals[d] = before[i].vals[d]
              /\ before[i].vals[1] # NaN => data[i].vals[1] = before[i].vals[1]
              /\ (before[i].vals[1] = NaN /\ numDates >= 2)
                    => data[i].vals[1] = before[i].vals[2]

=============================================================================
